---- MODULE Spec2Model ----
(***************************************************************************)
(* Thai phonetic input: the phonetic encoder, the similarity scorers, the  *)
(* ranking engine, the compound decomposer and the IME session loop of     *)
(* MVPs/phonetic-cli/main.py.                                              *)
(*                                                                         *)
(* Strings are sequences of one-character strings.  Control characters     *)
(* that TLA+ cannot spell are named tokens ("ESC", "DEL", ...).  Scores    *)
(* are Python floats in the source; here they are exact rationals held as  *)
(* integers in units of 1/Scale, so the sums, the comparisons and the      *)
(* halving of the source are computed without rounding.                    *)
(***************************************************************************)
EXTENDS Integers, Sequences, FiniteSets, TLC

VARIABLES store, buffer, output, matches, emitted, pc, ch, nkeys,
          user_input, top_n, single, compound, result, lookups, qpc,
          word, limit, code, epc,
          arg1, arg2, argn, distance, similarity, spc

vars == <<store, buffer, output, matches, emitted, pc, ch, nkeys,
          user_input, top_n, single, compound, result, lookups, qpc,
          word, limit, code, epc,
          arg1, arg2, argn, distance, similarity, spc>>

imeVars == <<buffer, output, matches, emitted, pc, ch, nkeys>>
queryVars == <<user_input, top_n, single, compound, result, lookups, qpc>>
encoderVars == <<word, limit, code, epc>>
scorerVars == <<arg1, arg2, argn, distance, similarity, spc>>

(***************************************************************************)
(* Bounds of the model.                                                    *)
(***************************************************************************)
MaxKeys == 5
MaxStore == 3

(***************************************************************************)
(* Python string primitives.                                               *)
(***************************************************************************)
Min(a, b) == IF a < b THEN a ELSE b
Max(a, b) == IF a > b THEN a ELSE b

UpperLetters == <<"A","B","C","D","E","F","G","H","I","J","K","L","M",
                  "N","O","P","Q","R","S","T","U","V","W","X","Y","Z">>
LowerLetters == <<"a","b","c","d","e","f","g","h","i","j","k","l","m",
                  "n","o","p","q","r","s","t","u","v","w","x","y","z">>

\* str.lower() on one character
LowerChar(c) ==
    IF \E i \in 1..26 : UpperLetters[i] = c
    THEN LowerLetters[CHOOSE i \in 1..26 : UpperLetters[i] = c]
    ELSE c

\* str.lower()
Lower(s) == [i \in 1..Len(s) |-> LowerChar(s[i])]

\* the characters str.strip() removes
Whitespace == {" ", "\t", "\n", "\r"}

RECURSIVE LStrip(_)
LStrip(s) == IF s # <<>> /\ Head(s) \in Whitespace THEN LStrip(Tail(s)) ELSE s

RECURSIVE RStrip(_)
RStrip(s) ==
    IF s # <<>> /\ s[Len(s)] \in Whitespace
    THEN RStrip(SubSeq(s, 1, Len(s) - 1))
    ELSE s

\* str.strip()
Strip(s) == RStrip(LStrip(s))

\* s[:k] for any integer k (a negative k counts from the end)
SlicePrefix(s, k) ==
    IF k >= 0 THEN SubSeq(s, 1, Min(k, Len(s)))
    ELSE SubSeq(s, 1, Max(0, Len(s) + k))

\* s[k:] for k >= 0
SliceFrom(s, k) == SubSeq(s, Min(k, Len(s)) + 1, Len(s))

\* s.startswith(p)
StartsWith(s, p) == Len(p) <= Len(s) /\ SubSeq(s, 1, Len(p)) = p

\* str.replace(old, new): non-overlapping occurrences, left to right
RECURSIVE Replace(_, _, _)
Replace(t, old, new) ==
    IF Len(t) < Len(old) THEN t
    ELSE IF StartsWith(t, old)
         THEN new \o Replace(SubSeq(t, Len(old) + 1, Len(t)), old, new)
         ELSE <<Head(t)>> \o Replace(Tail(t), old, new)

(***************************************************************************)
(* thai_soundex                                                            *)
(***************************************************************************)
replacements ==
    << <<"n","g","4">>, <<"c","h","6">>, <<"k","h","1">>, <<"p","h","2">>,
       <<"t","h","3">>, <<"a","i","I">>, <<"a","y","I">>, <<"e","i","I">>,
       <<"a","e","E">>, <<"e","a","E">>, <<"e","e","I">>, <<"i","i","I">>,
       <<"o","o","U">>, <<"o","u","U">>, <<"u","e","U">> >>

RECURSIVE ApplyReplacements(_, _)
ApplyReplacements(text, k) ==
    IF k > Len(replacements) THEN text
    ELSE ApplyReplacements(
             Replace(text, <<replacements[k][1], replacements[k][2]>>,
                     <<replacements[k][3]>>), k + 1)

\* char_map with c in the class of s, z and j
char_mapSoftC ==
    [c \in {"k","c","g","p","b","t","d","n","m","l","r","s","z","j","w","v",
            "y","h","a","e","i","o","u"} |->
        CASE c \in {"k","g"} -> "1"
          [] c \in {"p","b"} -> "2"
          [] c \in {"t","d"} -> "3"
          [] c \in {"n","m"} -> "4"
          [] c \in {"l","r"} -> "5"
          [] c \in {"s","z","j","c"} -> "6"
          [] c \in {"w","v"} -> "7"
          [] c = "y" -> "8"
          [] c = "h" -> "9"
          [] c = "a" -> "A"
          [] c = "e" -> "E"
          [] c = "i" -> "I"
          [] c = "o" -> "O"
          [] c = "u" -> "U"]

char_map ==
    [c \in {"k","c","g","p","b","t","d","n","m","l","r","s","z","j","w","v",
            "y","h","a","e","i","o","u"} |->
        CASE c \in {"k","c","g"} -> "1"
          [] c \in {"p","b"} -> "2"
          [] c \in {"t","d"} -> "3"
          [] c \in {"n","m"} -> "4"
          [] c \in {"l","r"} -> "5"
          [] c \in {"s","z","j"} -> "6"
          [] c \in {"w","v"} -> "7"
          [] c = "y" -> "8"
          [] c = "h" -> "9"
          [] c = "a" -> "A"
          [] c = "e" -> "E"
          [] c = "i" -> "I"
          [] c = "o" -> "O"
          [] c = "u" -> "U"]

CodeAlphabet == {"1","2","3","4","5","6","7","8","9","A","E","I","O","U"}

\* the loop building `result`: mapped letters, letters already in the code
\* alphabet, everything else dropped
RECURSIVE MapChars(_)
MapChars(text) ==
    IF text = <<>> THEN <<>>
    ELSE (IF Head(text) \in DOMAIN char_map THEN <<char_map[Head(text)]>>
          ELSE IF Head(text) \in CodeAlphabet THEN <<Head(text)>>
          ELSE <<>>) \o MapChars(Tail(text))

\* Dedupe that keeps every character of result
DedupeKeepAll(res, final) == final \o res

\* the loop building `final`: consecutive duplicates removed
RECURSIVE Dedupe(_, _)
Dedupe(res, final) ==
    IF res = <<>> THEN final
    ELSE Dedupe(Tail(res),
                IF final = <<>> \/ final[Len(final)] # Head(res)
                THEN Append(final, Head(res)) ELSE final)

\* SoundexOfText that keeps one character too many
SoundexOfTextOneMore(text, length) ==
    IF text = <<>> THEN <<>>
    ELSE SlicePrefix(Dedupe(MapChars(ApplyReplacements(text, 1)), <<>>), length + 1)

\* thai_soundex after text = romanized.lower().strip()
SoundexOfText(text, length) ==
    IF text = <<>> THEN <<>>
    ELSE SlicePrefix(Dedupe(MapChars(ApplyReplacements(text, 1)), <<>>), length)

thai_soundex(romanized, length) == SoundexOfText(Strip(Lower(romanized)), length)

SoundexLength == 6

(***************************************************************************)
(* levenshtein_distance                                                    *)
(***************************************************************************)
Min3(a, b, c) == Min(a, Min(b, c))

RECURSIVE CurrentRowNoMatch(_, _, _, _)
\* CurrentRow that charges a substitution for equal characters too
CurrentRowNoMatch(previous_row, current_row, c1, s2) ==
    IF Len(current_row) > Len(s2) THEN current_row
    ELSE CurrentRowNoMatch(previous_row,
             Append(current_row,
                    Min3(previous_row[Len(current_row) + 1] + 1,
                         current_row[Len(current_row)] + 1,
                         previous_row[Len(current_row)] + 1)),
             c1, s2)

\* the inner loop: current_row for character c1 of s1 at index i (0-based)
RECURSIVE CurrentRow(_, _, _, _)
CurrentRow(previous_row, current_row, c1, s2) ==
    IF Len(current_row) > Len(s2) THEN current_row
    ELSE CurrentRow(previous_row,
             Append(current_row,
                    Min3(previous_row[Len(current_row) + 1] + 1,
                         current_row[Len(current_row)] + 1,
                         previous_row[Len(current_row)]
                             + (IF c1 # s2[Len(current_row)] THEN 1 ELSE 0))),
             c1, s2)

RECURSIVE LevRows(_, _, _, _)
LevRows(previous_row, s1, i, s2) ==
    IF i > Len(s1) THEN previous_row
    ELSE LevRows(CurrentRow(previous_row, <<i>>, s1[i], s2), s1, i + 1, s2)

Last(row) == row[Len(row)]

LevOrdered(s1, s2) ==
    IF Len(s2) = 0 THEN Len(s1)
    ELSE Last(LevRows([j \in 1..(Len(s2) + 1) |-> j - 1], s1, 1, s2))

levenshtein_distance(s1, s2) ==
    IF Len(s1) < Len(s2) THEN LevOrdered(s2, s1) ELSE LevOrdered(s1, s2)

(***************************************************************************)
(* ngram_similarity: the Jaccard ratio as the pair <<intersection, union>>;*)
(* 0.0 is <<0, 1>>.                                                        *)
(***************************************************************************)
\* Ngrams without the last n-gram
NgramsShort(s, n) == {SubSeq(s, i, i + n - 1) : i \in 1..(Len(s) - n)}

Ngrams(s, n) == {SubSeq(s, i, i + n - 1) : i \in 1..(Len(s) - n + 1)}

\* intersection / union if union > 0 else 0.0
Ratio(intersection, union) ==
    IF union > 0 THEN <<intersection, union>> ELSE <<0, 1>>

Jaccard(ngrams1, ngrams2) ==
    IF ngrams1 = {} \/ ngrams2 = {} THEN <<0, 1>>
    ELSE Ratio(Cardinality(ngrams1 \cap ngrams2),
               Cardinality(ngrams1 \cup ngrams2))

ngram_similarity(s1, s2, n) ==
    IF Len(s1) < n \/ Len(s2) < n THEN <<0, 1>>
    ELSE Jaccard(Ngrams(s1, n), Ngrams(s2, n))

(***************************************************************************)
(* The words table.  A row is a record; the store is the sequence of rows  *)
(* in rowid order.  insert_word computes the soundex column from the       *)
(* romanization and skips a word whose code is empty or whose pair         *)
(* (romanized, thai) was already inserted.                                 *)
(***************************************************************************)
Row(thai, romanized, frequency, category) ==
    [thai |-> thai, romanized |-> romanized,
     soundex |-> thai_soundex(romanized, SoundexLength),
     frequency |-> frequency, category |-> category]

\* words the corpus build may insert; frequencies are 0 or powers of ten,
\* the values on which log10 is computed exactly
Pool ==
    << Row(<<"Tm","Ta">>, <<"m","a">>, 10000, "word"),
       Row(<<"Tn","Ta">>, <<"n","a">>, 1, "word"),
       Row(<<"Tm","Ta","Ta">>, <<"m","a","a">>, 1000000000, "word"),
       Row(<<"Th","Ta">>, <<"h","a">>, 100, "word"),
       Row(<<"Tm","Ta","Th","Ta">>, <<"m","a","h","a">>, 0, "wiki"),
       Row(<<"Tm","Tx">>, <<"m","a","h">>, 1000000000, "name"),
       Row(<<"TN","Ta">>, <<"n","a">>, 0, "name"),
       Row(<<"Tm","Tm">>,
           <<"m","m","m","m","m","m","m","m","m","m","m">>, 1, "wiki"),
       Row(<<"Th","Ta","Th">>, <<"h","a","h","a","h">>, 100, "word") >>

RECURSIVE SeqsUpTo(_, _)
\* the sequences of at most n distinct elements of S
SeqsUpTo(S, n) ==
    IF n = 0 THEN {<<>>}
    ELSE LET shorter == SeqsUpTo(S, n - 1)
         IN  shorter \cup
             {Append(q, x) : q \in {r \in shorter : Len(r) = n - 1}, x \in S}

Distinct(q) == \A i, j \in 1..Len(q) : i # j => q[i] # q[j]

\* insert_word: rows are unique on (romanized, thai) and have a code
StoreOK(st) ==
    /\ \A i \in 1..Len(st) : st[i].soundex # <<>>
    /\ \A i, j \in 1..Len(st) :
          i # j => <<st[i].romanized, st[i].thai>> # <<st[j].romanized, st[j].thai>>

Stores ==
    {q \in SeqsUpTo({Pool[i] : i \in 1..Len(Pool)}, MaxStore) :
        Distinct(q) /\ StoreOK(q)}

(***************************************************************************)
(* A store with more rows than one SELECT returns: the word "a", words    *)
(* read "aa", "aaa" or "aaaa" (all of code A, more of them than the        *)
(* LIMIT), two words whose code only begins with A or with 4A, and a word  *)
(* of code 4A.                                                             *)
(***************************************************************************)
\* the LIMIT of the SELECT of find_matches_db
QueryLimit == 100

RECURSIVE Pow10(_)
Pow10(k) == IF k = 0 THEN 1 ELSE 10 * Pow10(k - 1)

\* the k-th word read "aa", "aaa" or "aaaa"; the frequencies run through
\* 1, 10, 100, 1000
Bulk(k) ==
    Row([i \in 1..k |-> "Ta"], [i \in 1..(2 + (k % 3)) |-> "a"], Pow10(k % 4), "wiki")

BigStore ==
    << Row(<<"Ta","Tm">>, <<"a","m">>, 10000, "word"),
       Row(<<"Tm","Ta","Tm","Ta">>, <<"m","a","a","m","a">>, 10000, "word"),
       Pool[2] >>
    \o [k \in 1..(QueryLimit + 1) |-> Bulk(k + 1)]
    \o << Row(<<"Ta">>, <<"a">>, 1, "word") >>

\* the stores a query is run over
QueryStores == Stores \cup {BigStore}

(***************************************************************************)
(* Stable sort by ascending integer key (list.sort and ORDER BY).          *)
(***************************************************************************)
RECURSIVE InsertAsc(_, _)
InsertAsc(sorted, p) ==
    IF sorted = <<>> THEN <<p>>
    ELSE IF sorted[1][1] <= p[1]
         THEN <<sorted[1]>> \o InsertAsc(Tail(sorted), p)
         ELSE <<p>> \o sorted

RECURSIVE SortAscFrom(_, _)
SortAscFrom(pairs, acc) ==
    IF pairs = <<>> THEN acc
    ELSE SortAscFrom(Tail(pairs), InsertAsc(acc, Head(pairs)))

\* keyed is a sequence of <<key, item>>; the items by ascending key
StableSortAsc(keyed) ==
    LET sorted == SortAscFrom(keyed, <<>>)
    IN  [i \in 1..Len(sorted) |-> sorted[i][2]]

\* list.sort(key=score, reverse=True): descending, equal scores keep order
SortByScoreDesc(seq) ==
    StableSortAsc([i \in 1..Len(seq) |-> <<0 - seq[i].score, seq[i]>>])

(***************************************************************************)
(* Scores: one unit is 1/Scale.  Scale is twice the least common multiple  *)
(* of 1..16, so every Jaccard ratio with a union of at most 16 n-grams,    *)
(* every half and every mean of two scores is a whole number of units.     *)
(***************************************************************************)
Scale == 2 * 720720
Pts(n) == n * Scale

\* math.log10 on the powers of ten
RECURSIVE Log10(_)
Log10(f) == IF f < 10 THEN 0 ELSE 1 + Log10(f \div 10)

\* min(10, math.log10(max(1, freq)) / 2)
freq_boost(freq) == Min(Pts(10), (Pts(1) * Log10(Max(1, freq))) \div 2)

(***************************************************************************)
(* find_matches_db                                                         *)
(***************************************************************************)
Normalize(user_in) ==
    SelectSeq(Strip(Lower(user_in)), LAMBDA c : c # " ")

\* the CASE of the ORDER BY clause
QueryTier(row, input_norm, input_sx) ==
    IF row.romanized = input_norm THEN 0
    ELSE IF row.soundex = input_sx THEN 1 ELSE 2

\* ORDER BY frequency DESC
OrderByFrequency(rows) ==
    StableSortAsc([i \in 1..Len(rows) |-> <<0 - rows[i].frequency, rows[i]>>])

\* ORDER BY CASE ... END
OrderByTier(rows, input_norm, input_sx) ==
    StableSortAsc([i \in 1..Len(rows) |->
                      <<QueryTier(rows[i], input_norm, input_sx), rows[i]>>])

\* the WHERE clause
QueryWhere(st, input_norm, input_sx, input_sx_prefix) ==
    SelectSeq(st, LAMBDA row :
        \/ row.romanized = input_norm
        \/ row.soundex = input_sx
        \/ StartsWith(row.soundex, input_sx_prefix))

\* QueryRows with the LIMIT applied ahead of the ORDER BY
QueryRowsLimitFirst(st, input_norm, input_sx, input_sx_prefix) ==
    OrderByTier(
        OrderByFrequency(
            SlicePrefix(QueryWhere(st, input_norm, input_sx, input_sx_prefix),
                        QueryLimit)),
        input_norm, input_sx)

\* the SELECT: WHERE, ORDER BY CASE ..., frequency DESC, LIMIT
QueryRows(st, input_norm, input_sx, input_sx_prefix) ==
    SlicePrefix(
        OrderByTier(
            OrderByFrequency(QueryWhere(st, input_norm, input_sx, input_sx_prefix)),
            input_norm, input_sx),
        QueryLimit)

\* Classify with the code test ahead of the romanization test
ClassifySoundexFirst(row, input_norm, input_sx) ==
    IF row.soundex = input_sx
    THEN <<Pts(Max(0, 90 - levenshtein_distance(input_norm, row.romanized) * 10)),
           "soundex_exact">>
    ELSE IF row.romanized = input_norm THEN <<Pts(100), "exact">>
         ELSE <<Pts(Max(0, 70 - levenshtein_distance(input_norm, row.romanized) * 10)),
                "soundex_partial">>

\* Classify with the base of a code match given to a prefix match too
ClassifyPrefixAs90(row, input_norm, input_sx) ==
    IF row.romanized = input_norm THEN <<Pts(100), "exact">>
    ELSE IF row.soundex = input_sx
         THEN <<Pts(Max(0, 90 - levenshtein_distance(input_norm, row.romanized) * 10)),
                "soundex_exact">>
         ELSE <<Pts(Max(0, 90 - levenshtein_distance(input_norm, row.romanized) * 10)),
                "soundex_partial">>

\* the if/elif/else on a fetched row: <<base score, match type>>
Classify(row, input_norm, input_sx) ==
    IF row.romanized = input_norm THEN <<Pts(100), "exact">>
    ELSE IF row.soundex = input_sx
         THEN <<Pts(Max(0, 90 - levenshtein_distance(input_norm, row.romanized) * 10)),
                "soundex_exact">>
         ELSE <<Pts(Max(0, 70 - levenshtein_distance(input_norm, row.romanized) * 10)),
                "soundex_partial">>

\* (bigram_sim * 15) + (trigram_sim * 10)
NgramBoostOf(bigram_sim, trigram_sim) ==
    (bigram_sim[1] * 15 * Scale) \div bigram_sim[2]
    + (trigram_sim[1] * 10 * Scale) \div trigram_sim[2]

NgramBoost(input_norm, rom) ==
    NgramBoostOf(ngram_similarity(input_norm, rom, 2),
                 ngram_similarity(input_norm, rom, 3))

PrefixBoost(input_norm, rom) ==
    IF \/ StartsWith(rom, SlicePrefix(input_norm, 3))
       \/ StartsWith(input_norm, SlicePrefix(rom, 3))
    THEN Pts(5) ELSE 0

\* the score after the boosts, from the base score
RowScore(base, row, input_norm) ==
    base
    + NgramBoost(input_norm, row.romanized)
    + PrefixBoost(input_norm, row.romanized)
    + (IF row.frequency > 0 THEN freq_boost(row.frequency) ELSE 0)

\* the dict appended to results; cls is <<base score, match type>>
ScoredAs(row, cls, input_norm) ==
    [thai |-> row.thai, romanized |-> row.romanized, soundex |-> row.soundex,
     frequency |-> row.frequency, category |-> row.category,
     score |-> RowScore(cls[1], row, input_norm),
     match_type |-> cls[2]]

Scored(row, input_norm, input_sx) ==
    ScoredAs(row, Classify(row, input_norm, input_sx), input_norm)

\* ScoreRows without the test score > 0
ScoreRowsAll(rows, input_norm, input_sx) ==
    [i \in 1..Len(rows) |-> Scored(rows[i], input_norm, input_sx)]

\* the loop over cursor.fetchall(): rows scored, those with score > 0 kept
ScoreRows(rows, input_norm, input_sx) ==
    SelectSeq([i \in 1..Len(rows) |-> Scored(rows[i], input_norm, input_sx)],
              LAMBDA m : m.score > 0)

\* input_sx[:3] if len(input_sx) >= 3 else input_sx
SxPrefix(input_sx) ==
    IF Len(input_sx) >= 3 THEN SlicePrefix(input_sx, 3) ELSE input_sx

\* find_matches_db from the soundex code on
RankCoded(input_norm, input_sx, st, n) ==
    SlicePrefix(
        SortByScoreDesc(
            ScoreRows(QueryRows(st, input_norm, input_sx, SxPrefix(input_sx)),
                      input_norm, input_sx)),
        n)

\* RankNormalized without the early return for an empty input
RankNormalizedNoGuard(input_norm, st, n) ==
    RankCoded(input_norm, thai_soundex(input_norm, SoundexLength), st, n)

\* find_matches_db from the normalized input on
RankNormalized(input_norm, st, n) ==
    IF input_norm = <<>> THEN <<>>
    ELSE RankCoded(input_norm, thai_soundex(input_norm, SoundexLength), st, n)

find_matches_db(user_in, st, n) == RankNormalized(Normalize(user_in), st, n)

(***************************************************************************)
(* find_compound_matches_db                                                *)
(***************************************************************************)
compound_penalty == 30

\* CompoundScore without the halving
CompoundScoreSum(lscore, rscore) ==
    (lscore + rscore) - Pts(compound_penalty)

\* (lm["score"] + rm["score"]) / 2 - compound_penalty
CompoundScore(lscore, rscore) ==
    (lscore + rscore) \div 2 - Pts(compound_penalty)

\* the dict appended for a split whose halves both matched
CompoundOf(lm, rm, left, right) ==
    [thai |-> lm.thai \o rm.thai,
     romanized |-> left \o <<"+">> \o right,
     soundex |-> <<>>, frequency |-> 0, category |-> "compound",
     score |-> CompoundScore(lm.score, rm.score),
     match_type |-> "compound"]

\* Combine without the test against seen
CombineNoSeen(acc, left, right, left_matches, right_matches) ==
    IF left_matches # <<>> /\ right_matches # <<>>
       /\ left_matches[1].score >= Pts(50) /\ right_matches[1].score >= Pts(50)
    THEN << Append(acc[1], CompoundOf(left_matches[1], right_matches[1], left, right)),
            acc[2] \cup {left_matches[1].thai \o right_matches[1].thai} >>
    ELSE acc

\* Combine without the test of the two scores against 50
CombineNoThreshold(acc, left, right, left_matches, right_matches) ==
    IF left_matches # <<>> /\ right_matches # <<>>
       /\ (left_matches[1].thai \o right_matches[1].thai) \notin acc[2]
    THEN << Append(acc[1], CompoundOf(left_matches[1], right_matches[1], left, right)),
            acc[2] \cup {left_matches[1].thai \o right_matches[1].thai} >>
    ELSE acc

\* the body of the loop once both halves are matched; acc is <<results, seen>>
Combine(acc, left, right, left_matches, right_matches) ==
    IF left_matches # <<>> /\ right_matches # <<>>
       /\ left_matches[1].score >= Pts(50) /\ right_matches[1].score >= Pts(50)
       /\ (left_matches[1].thai \o right_matches[1].thai) \notin acc[2]
    THEN << Append(acc[1], CompoundOf(left_matches[1], right_matches[1], left, right)),
            acc[2] \cup {left_matches[1].thai \o right_matches[1].thai} >>
    ELSE acc

\* the body of the loop for the halves left and right
CompoundSplit(acc, left, right, st) ==
    Combine(acc, left, right,
            find_matches_db(left, st, 1), find_matches_db(right, st, 1))

\* the body of the loop for split point i
CompoundStep(acc, input_norm, i, st) ==
    CompoundSplit(acc, SlicePrefix(input_norm, i), SliceFrom(input_norm, i), st)

RECURSIVE CompoundLoop(_, _, _, _)
\* for i in range(2, len(input_norm) - 1)
CompoundLoop(acc, input_norm, i, st) ==
    IF i >= Len(input_norm) - 1 THEN acc
    ELSE CompoundLoop(CompoundStep(acc, input_norm, i, st), input_norm, i + 1, st)

\* find_compound_matches_db from the normalized input on
CompoundNormalized(input_norm, st, n) ==
    IF Len(input_norm) < 4 THEN <<>>
    ELSE SlicePrefix(
             SortByScoreDesc(CompoundLoop(<< <<>>, {} >>, input_norm, 2, st)[1]),
             n)

find_compound_matches_db(user_in, st, n) ==
    CompoundNormalized(Normalize(user_in), st, n)

(***************************************************************************)
(* find_matches                                                            *)
(***************************************************************************)
\* MergeMatches with all_matches = compound + single
MergeMatchesCompoundFirst(sgl, cmp, n) == SlicePrefix(SortByScoreDesc(cmp \o sgl), n)

\* all_matches = single + compound; sort; slice
MergeMatches(sgl, cmp, n) == SlicePrefix(SortByScoreDesc(sgl \o cmp), n)

find_matches(user_in, st, n) ==
    MergeMatches(find_matches_db(user_in, st, n),
                 find_compound_matches_db(user_in, st, n), n)

(***************************************************************************)
(* The store lookups of one call: the number of conn.execute calls.        *)
(***************************************************************************)
\* find_matches_db: the SELECT follows the return for an empty input
RankLookups(user_in) == IF Normalize(user_in) = <<>> THEN 0 ELSE 1

RECURSIVE CompoundLoopLookups(_, _)
\* the two find_matches_db calls of every split point from i on
CompoundLoopLookups(input_norm, i) ==
    IF i >= Len(input_norm) - 1 THEN 0
    ELSE RankLookups(SlicePrefix(input_norm, i))
         + RankLookups(SliceFrom(input_norm, i))
         + CompoundLoopLookups(input_norm, i + 1)

\* find_compound_matches_db: no loop for fewer than four characters
CompoundLookups(user_in) ==
    IF Len(Normalize(user_in)) < 4 THEN 0
    ELSE CompoundLoopLookups(Normalize(user_in), 2)

(***************************************************************************)
(* run_realtime: the IME session.  A state is the loop blocked in getch(); *)
(* one step reads one keystroke, runs its handler and, when the loop goes  *)
(* on, the top of the next iteration, which recomputes the suggestions.    *)
(***************************************************************************)
\* what getch() can deliver: characters (control characters by name, ""
\* for a read at end of input) ...
Keys == {"m", "a", "6", " ", "1", "2", "3", "CR", "LF", "DEL", "BS",
         "ESC", "CTRLC", "CTRLD", ""}
\* ... or an exception
ReadErrors == {"KeyboardInterrupt", "EOFError"}

\* characters for which str.isprintable() is False
ControlChars == {"CR", "LF", "DEL", "BS", "ESC", "CTRLC", "CTRLD", "\t", "\n", "\r"}
isprintable(c) == c \notin ControlChars

\* IsCancel without Ctrl+C
IsCancelEscOnly(c) == c \in {"ESC"}
IsCancel(c) == c \in {"CTRLC", "ESC"}
IsBackspace(c) == c \in {"DEL", "BS"}
\* ch in "12345" is a substring test, true of the empty string
IsNumber(c) == c \in {"", "1", "2", "3", "4", "5"}
IsEnter(c) == c \in {"CR", "LF"}

\* int(ch) for the one-digit strings
IntOf(c) == CHOOSE d \in 1..5 : <<"1", "2", "3", "4", "5">>[d] = c

SuggestCount == 5

\* Suggest without the else branch: an empty buffer keeps the old list
SuggestKeep(buf, st) ==
    IF buf # <<>> THEN find_matches(buf, st, SuggestCount) ELSE matches

\* the top of the loop: if buffer: matches = find_matches(...) else: []
Suggest(buf, st) ==
    IF buf # <<>> THEN find_matches(buf, st, SuggestCount) ELSE <<>>

\* OnBackspace without the deletion from output
OnBackspaceBufferOnly(buf, out) ==
    IF buf # <<>> THEN <<SubSeq(buf, 1, Len(buf) - 1), out>> ELSE <<buf, out>>

\* the handlers, as <<buffer, output>> after the keystroke
OnBackspace(buf, out) ==
    IF buf # <<>> THEN <<SubSeq(buf, 1, Len(buf) - 1), out>>
    ELSE IF out # <<>> THEN <<buf, SubSeq(out, 1, Len(out) - 1)>>
    ELSE <<buf, out>>

\* OnSelect that takes the first suggestion whatever idx is
OnSelectFirst(buf, out, ms, idx) ==
    IF buf # <<>> /\ ms # <<>> /\ idx < Len(ms)
    THEN << <<>>, out \o ms[1].thai >>
    ELSE <<buf, out>>

\* Space (idx 0) and number selection (idx = int(ch) - 1)
OnSelect(buf, out, ms, idx) ==
    IF buf # <<>> /\ ms # <<>> /\ idx < Len(ms)
    THEN << <<>>, out \o ms[idx + 1].thai >>
    ELSE <<buf, out>>

\* OnEnter that prints the line whether or not output is empty
OnEnterEmitAlways(buf, out, ms) ==
    LET accepted == IF buf # <<>> /\ ms # <<>> THEN out \o ms[1].thai ELSE out
    IN  << <<>>, <<>>, <<accepted>> >>

\* OnEnter that forgets to reset buffer
OnEnterKeepBuffer(buf, out, ms) ==
    LET accepted == IF buf # <<>> /\ ms # <<>> THEN out \o ms[1].thai ELSE out
    IN  IF accepted # <<>> THEN <<buf, <<>>, <<accepted>> >>
        ELSE <<buf, accepted, <<>> >>

\* Enter: <<buffer, output, lines printed>>
OnEnter(buf, out, ms) ==
    LET accepted == IF buf # <<>> /\ ms # <<>> THEN out \o ms[1].thai ELSE out
    IN  IF accepted # <<>> THEN << <<>>, <<>>, <<accepted>> >>
        ELSE <<buf, accepted, <<>> >>

\* OnPrintable with = in place of +=
OnPrintableReplace(buf, c) == <<c>>

\* buffer += ch
OnPrintable(buf, c) == Append(buf, c)

\* getch() returned c; the rest of the step keeps the loop going
Continue(c, buf, out, lines) ==
    /\ ch' = c
    /\ nkeys' = nkeys + 1
    /\ buffer' = buf
    /\ output' = out
    /\ emitted' = emitted \o lines
    /\ pc' = "getch"
    /\ matches' = Suggest(buffer', store)
    /\ UNCHANGED <<store, queryVars, encoderVars, scorerVars>>

\* the loop is left: by break ("exited") or by an uncaught exception
Leave(c, how) ==
    /\ ch' = c
    /\ nkeys' = nkeys + 1
    /\ pc' = how
    /\ UNCHANGED <<store, buffer, output, matches, emitted, queryVars,
                   encoderVars, scorerVars>>

Reading == pc = "getch" /\ nkeys < MaxKeys

ReadRaises(e) ==
    /\ Reading
    /\ e \in ReadErrors
    /\ Leave(e, "exited")

Cancel(c) ==
    /\ Reading
    /\ IsCancel(c)
    /\ Leave(c, "exited")

Backspace(c) ==
    /\ Reading
    /\ ~IsCancel(c) /\ IsBackspace(c)
    /\ LET r == OnBackspace(buffer, output) IN Continue(c, r[1], r[2], <<>>)

AcceptFirst(c) ==
    /\ Reading
    /\ ~IsCancel(c) /\ ~IsBackspace(c) /\ c = " "
    /\ LET r == OnSelect(buffer, output, matches, 0) IN Continue(c, r[1], r[2], <<>>)

\* idx = int(ch) - 1 raises ValueError for the empty string
SelectNumber(c) ==
    /\ Reading
    /\ ~IsCancel(c) /\ ~IsBackspace(c) /\ c # " " /\ IsNumber(c)
    /\ IF c = "" THEN Leave(c, "ValueError")
       ELSE LET r == OnSelect(buffer, output, matches, IntOf(c) - 1)
            IN  Continue(c, r[1], r[2], <<>>)

Enter(c) ==
    /\ Reading
    /\ ~IsCancel(c) /\ ~IsBackspace(c) /\ c # " " /\ ~IsNumber(c) /\ IsEnter(c)
    /\ LET r == OnEnter(buffer, output, matches) IN Continue(c, r[1], r[2], r[3])

Printable(c) ==
    /\ Reading
    /\ ~IsCancel(c) /\ ~IsBackspace(c) /\ c # " " /\ ~IsNumber(c) /\ ~IsEnter(c)
    /\ isprintable(c)
    /\ Continue(c, OnPrintable(buffer, c), output, <<>>)

\* no branch of the elif chain matches
Ignored(c) ==
    /\ Reading
    /\ ~IsCancel(c) /\ ~IsBackspace(c) /\ c # " " /\ ~IsNumber(c) /\ ~IsEnter(c)
    /\ ~isprintable(c)
    /\ Continue(c, buffer, output, <<>>)

\* no call of the encoder or of the scorers is under way
EncoderIdle == word = <<>> /\ limit = 0 /\ code = <<>> /\ epc = "idle"
ScorerIdle ==
    /\ arg1 = <<>> /\ arg2 = <<>> /\ argn = 0
    /\ distance = 0 /\ similarity = <<0, 1>> /\ spc = "idle"

\* no session and no query is under way
ImeIdle ==
    /\ buffer = <<>> /\ output = <<>> /\ matches = <<>> /\ emitted = <<>>
    /\ pc = "idle" /\ ch = "none" /\ nkeys = 0
QueryIdle ==
    /\ user_input = <<>> /\ top_n = 0 /\ single = <<>> /\ compound = <<>>
    /\ result = <<>> /\ lookups = 0 /\ qpc = "idle"

\* the stores the session is run over
ImeStores == {<<>>, <<Pool[1], Pool[2], Pool[3]>>}

Init ==
    /\ store \in ImeStores
    /\ buffer = <<>>
    /\ output = <<>>
    /\ matches = <<>>
    /\ emitted = <<>>
    /\ pc = "getch"
    /\ ch = "none"
    /\ nkeys = 0
    /\ user_input = <<>>
    /\ top_n = SuggestCount
    /\ single = <<>>
    /\ compound = <<>>
    /\ result = <<>>
    /\ lookups = 0
    /\ qpc = "idle"
    /\ EncoderIdle
    /\ ScorerIdle

Next ==
    \/ \E e \in ReadErrors : ReadRaises(e)
    \/ \E c \in Keys : Cancel(c)
    \/ \E c \in Keys : Backspace(c)
    \/ \E c \in Keys : AcceptFirst(c)
    \/ \E c \in Keys : SelectNumber(c)
    \/ \E c \in Keys : Enter(c)
    \/ \E c \in Keys : Printable(c)
    \/ \E c \in Keys : Ignored(c)

Spec == Init /\ [][Next]_vars

(***************************************************************************)
(* One query: main() with a word on the command line, or one round of the  *)
(* interactive prompt.  The input and the store are drawn at the start;    *)
(* the step runs find_matches.                                             *)
(***************************************************************************)
Inputs ==
    { <<"m","a">>, <<"m","a","h","a">>, <<"M","a"," ">>, <<"m"," ","a">>,
      <<"m","a","h">>, <<"x">>, <<>>, <<" ">>, <<"n","a">>,
      <<"h","a","h","a">>, <<"m">>, <<"m","a","a">>, <<"a">>,
      <<"h","a","m","a">>, <<"\t"," ">>,
      <<"h","a","m","m">>, <<"m","a","h","h","a">> }

TopNs == {1, 2, 5}

InitQuery ==
    /\ store \in QueryStores
    /\ user_input \in Inputs
    /\ top_n \in TopNs
    /\ single = <<>>
    /\ compound = <<>>
    /\ result = <<>>
    /\ lookups = 0
    /\ qpc = "start"
    /\ buffer = <<>>
    /\ output = <<>>
    /\ matches = <<>>
    /\ emitted = <<>>
    /\ pc = "idle"
    /\ ch = "none"
    /\ nkeys = 0
    /\ EncoderIdle
    /\ ScorerIdle

RunQuery ==
    /\ qpc = "start"
    /\ single' = find_matches_db(user_input, store, top_n)
    /\ compound' = find_compound_matches_db(user_input, store, top_n)
    /\ result' = MergeMatches(single', compound', top_n)
    /\ lookups' = RankLookups(user_input) + CompoundLookups(user_input)
    /\ qpc' = "done"
    /\ UNCHANGED <<store, user_input, top_n, imeVars, encoderVars, scorerVars>>

NextQuery == RunQuery

SpecQuery == InitQuery /\ [][NextQuery]_vars

(***************************************************************************)
(* One call thai_soundex(word, limit).  The characters cover every         *)
(* articulatory class, the clusters with h and g, a vowel, upper case,     *)
(* the space, a digit, an unmapped letter and punctuation.                 *)
(***************************************************************************)
MaxWord == 3

EncoderChars ==
    {"k", "c", "g", "n", "p", "t", "l", "s", "w", "h", "a",
     "H", " ", "7", "x", "-"}

Words == SeqsUpTo(EncoderChars, MaxWord)

\* the length argument: every cut of a code, and the default
Limits == (0..MaxWord) \cup {SoundexLength}

InitEncoder ==
    /\ word \in Words
    /\ limit \in Limits
    /\ code = <<>>
    /\ epc = "start"
    /\ store = <<>>
    /\ ImeIdle
    /\ QueryIdle
    /\ ScorerIdle

Encode ==
    /\ epc = "start"
    /\ code' = thai_soundex(word, limit)
    /\ epc' = "done"
    /\ UNCHANGED <<store, imeVars, queryVars, word, limit, scorerVars>>

NextEncoder == Encode

SpecEncoder == InitEncoder /\ [][NextEncoder]_vars

(***************************************************************************)
(* One call of a scorer on two strings: levenshtein_distance(arg1, arg2)   *)
(* or ngram_similarity(arg1, arg2, argn).                                  *)
(***************************************************************************)
MaxText == 3
MaxN == 3

ScorerChars == {"a", "b"}

Texts == SeqsUpTo(ScorerChars, MaxText)

InitScorer ==
    /\ arg1 \in Texts
    /\ arg2 \in Texts
    /\ argn \in 1..MaxN
    /\ distance = 0
    /\ similarity = <<0, 1>>
    /\ spc = "start"
    /\ store = <<>>
    /\ ImeIdle
    /\ QueryIdle
    /\ EncoderIdle

CallLevenshtein ==
    /\ spc = "start"
    /\ distance' = levenshtein_distance(arg1, arg2)
    /\ spc' = "distance"
    /\ UNCHANGED <<store, imeVars, queryVars, encoderVars,
                   arg1, arg2, argn, similarity>>

CallNgram ==
    /\ spc = "start"
    /\ similarity' = ngram_similarity(arg1, arg2, argn)
    /\ spc' = "similarity"
    /\ UNCHANGED <<store, imeVars, queryVars, encoderVars,
                   arg1, arg2, argn, distance>>

NextScorer == CallLevenshtein \/ CallNgram

SpecScorer == InitScorer /\ [][NextScorer]_vars

(***************************************************************************)
(* Properties of the IME session (specification Spec).                     *)
(***************************************************************************)
\* a keystroke was read and handled in this step
KeyStep == nkeys' = nkeys + 1

AcceptKeys == {" ", "1", "2", "3", "4", "5"}
DeleteKeys == {"DEL", "BS"}
CommitKeys == {"CR", "LF"}
CancelKeys == {"ESC", "CTRLC"}
AcceptN(c) == IF c = " " THEN 1 ELSE IntOf(c)

\* C1: an accept-N keystroke (space is N = 1, digit d is N = d) with a
\* non-empty buffer and at least N suggestions appends the text of the N-th
\* suggestion to output and clears buffer; in every other case buffer and
\* output stay as they were (so the key is not appended to buffer).
C1_Accept ==
    [][ (KeyStep /\ ch' \in AcceptKeys) =>
            IF buffer # <<>> /\ Len(matches) >= AcceptN(ch')
            THEN /\ output' = output \o matches[AcceptN(ch')].thai
                 /\ buffer' = <<>>
            ELSE /\ buffer' = buffer
                 /\ output' = output ]_vars

\* "m" then "2": the second suggestion for "m" was accepted
C1_Witness ==
    /\ nkeys = 2 /\ ch = "2" /\ pc = "getch"
    /\ buffer = <<>> /\ output = <<"Tm", "Ta", "Ta">>

\* C2: Enter first appends the best suggestion's text to output when buffer
\* and the suggestions are non-empty; then, if output is non-empty, exactly
\* one line equal to that output is emitted and buffer and output are empty.
C2_Commit ==
    [][ (KeyStep /\ ch' \in CommitKeys) =>
            LET accepted == IF buffer # <<>> /\ matches # <<>>
                            THEN output \o matches[1].thai ELSE output
            IN  accepted # <<>> =>
                    /\ emitted' = Append(emitted, accepted)
                    /\ buffer' = <<>>
                    /\ output' = <<>> ]_vars

\* "m", space, "m", Enter: the line holds the accepted word twice
C2_Witness ==
    /\ nkeys = 4 /\ ch = "CR"
    /\ emitted = << <<"Tm", "Ta", "Tm", "Ta">> >>
    /\ buffer = <<>> /\ output = <<>>

\* C3: delete removes the last character of a non-empty buffer and leaves
\* output alone; with an empty buffer it removes the last character of a
\* non-empty output; with both empty it changes nothing.
C3_Delete ==
    [][ (KeyStep /\ ch' \in DeleteKeys) =>
            IF buffer # <<>>
            THEN /\ buffer' = SubSeq(buffer, 1, Len(buffer) - 1)
                 /\ output' = output
            ELSE IF output # <<>>
                 THEN /\ buffer' = buffer
                      /\ output' = SubSeq(output, 1, Len(output) - 1)
                 ELSE /\ buffer' = buffer
                      /\ output' = output ]_vars

\* "m", space, delete: the empty buffer made delete eat into output
C3_Witness ==
    /\ nkeys = 3 /\ ch = "DEL"
    /\ buffer = <<>> /\ output = <<"Tm">>

\* C4 as stated: every printable character is appended to buffer and
\* leaves output unchanged.
C4_Original ==
    [][ (KeyStep /\ ch' \in Keys /\ ch' # "" /\ isprintable(ch')) =>
            /\ buffer' = Append(buffer, ch')
            /\ output' = output ]_vars

\* C4 amended: a printable character other than space and the digits 1-5
\* (the accept keys) is appended to the end of buffer and leaves output
\* unchanged.
C4_Printable ==
    [][ (KeyStep /\ ch' \in Keys /\ ch' # "" /\ isprintable(ch')
         /\ ch' \notin AcceptKeys) =>
            /\ buffer' = Append(buffer, ch')
            /\ output' = output ]_vars

\* "m", space, "m", "6": a digit that is no accept key joins the buffer
C4_Witness ==
    /\ nkeys = 4 /\ ch = "6"
    /\ buffer = <<"m", "6">> /\ output = <<"Tm", "Ta">>

\* C5: a cancel keystroke (ESC or Ctrl+C) can be taken in every state of a
\* running session and ends it: no line is emitted, buffer and output are
\* left as they were, and no step follows the end of the session.
C5_Cancel ==
    /\ [](Reading => \A c \in CancelKeys : ENABLED Cancel(c))
    /\ [][ /\ pc = "getch"
           /\ (KeyStep /\ ch' \in CancelKeys) =>
                 /\ pc' = "exited"
                 /\ emitted' = emitted
                 /\ buffer' = buffer
                 /\ output' = output ]_vars

\* "m", space, Ctrl+C: the session ended with uncommitted output
C5_Witness ==
    /\ nkeys = 3 /\ ch = "CTRLC" /\ pc = "exited"
    /\ output = <<"Tm", "Ta">> /\ emitted = <<>>

\* C6: a read that reports end of input (an empty read, EOFError or
\* KeyboardInterrupt) ends the loop as cancel does, without an error and
\* without changing output or emitting a line.
C6_EndOfInput ==
    [][ (KeyStep /\ ch' \in ({""} \cup ReadErrors)) =>
            /\ pc' = "exited"
            /\ output' = output
            /\ emitted' = emitted ]_vars

\* the buffer and output a keystroke leads to, with the suggestions taken
\* from the buffer alone
FreshSuggestions(buf) ==
    IF buf = <<>> THEN <<>> ELSE find_matches(buf, store, SuggestCount)

SessionStep(buf, out, lines, c) ==
    LET ms == FreshSuggestions(buf)
    IN  CASE c \in DeleteKeys -> <<OnBackspace(buf, out)[1], OnBackspace(buf, out)[2], lines>>
          [] c \in AcceptKeys ->
                <<OnSelect(buf, out, ms, AcceptN(c) - 1)[1],
                  OnSelect(buf, out, ms, AcceptN(c) - 1)[2], lines>>
          [] c \in CommitKeys ->
                <<OnEnter(buf, out, ms)[1], OnEnter(buf, out, ms)[2],
                  lines \o OnEnter(buf, out, ms)[3]>>
          [] c # "" /\ isprintable(c) /\ c \notin AcceptKeys ->
                <<Append(buf, c), out, lines>>
          [] OTHER -> <<buf, out, lines>>

\* C7: whenever a keystroke is about to be processed, the suggestions are
\* those of the buffer as it is now (none for an empty buffer), and the
\* outcome of the keystroke is the function of buffer, output, emitted
\* lines and key that recomputes the suggestions from the buffer.
C7_NeverStale ==
    /\ [](pc = "getch" => matches = FreshSuggestions(buffer))
    /\ [][ (KeyStep /\ pc' = "getch") =>
              <<buffer', output', emitted'>>
                  = SessionStep(buffer, output, emitted, ch') ]_vars

\* "m", "a", delete: the suggestions are again those of "m", all of them
\* matched by code prefix
C7_Witness ==
    /\ nkeys = 3 /\ ch = "DEL" /\ pc = "getch"
    /\ buffer = <<"m">>
    /\ Len(matches) = 3
    /\ \A i \in 1..3 : matches[i].match_type = "soundex_partial"

\* C26: every line the session has emitted is non-empty; a commit
\* keystroke that emits no line leaves buffer and output as they were, so
\* a pending buffer without suggestions is kept; a commit that emits a
\* line empties buffer and output, so a pending buffer without suggestions
\* is discarded.
C26_CommitLines ==
    [][ /\ \A i \in 1..Len(emitted') : emitted'[i] # <<>>
        /\ (KeyStep /\ ch' \in CommitKeys) =>
              /\ emitted' = emitted => (buffer' = buffer /\ output' = output)
              /\ emitted' # emitted =>
                    /\ Len(emitted') = Len(emitted) + 1
                    /\ buffer' = <<>>
                    /\ output' = <<>> ]_vars

\* "6" then Enter: nothing to accept and nothing to emit, the buffer stays
C26_Witness ==
    /\ nkeys = 2 /\ ch = "CR" /\ pc = "getch"
    /\ buffer = <<"6">> /\ matches = <<>>
    /\ output = <<>> /\ emitted = <<>>

(***************************************************************************)
(* Properties of one query (specification SpecQuery).                      *)
(***************************************************************************)
\* every scored candidate of the query, before the cut to top_n
AllScored == find_matches_db(user_input, store, QueryLimit)

\* among the scored candidates all, one romanized as the input is exact,
\* scores at least 100 and scores above every candidate that is not exact
ExactOutranksAmong(all, input_norm) ==
    \A i \in 1..Len(all) :
        all[i].romanized = input_norm =>
            /\ all[i].match_type = "exact"
            /\ all[i].score >= Pts(100)
            /\ \A j \in 1..Len(all) :
                  all[j].match_type # "exact" => all[i].score > all[j].score

HasExactEntry ==
    \E k \in 1..Len(store) : store[k].romanized = Normalize(user_input)

\* C8: every candidate whose romanization equals the normalized input has
\* match type exact and a score of at least 100, strictly above the score
\* of every non-exact candidate of the query, and when the store holds such
\* an entry the first entry returned is an exact match.
C8_ExactOutranks ==
    qpc = "done" =>
        /\ ExactOutranksAmong(AllScored, Normalize(user_input))
        /\ HasExactEntry => (single # <<>> /\ single[1].match_type = "exact")

\* an exact match returned ahead of a candidate with the same code
C8_Witness ==
    /\ qpc = "done"
    /\ Len(single) >= 2
    /\ single[1].match_type = "exact"
    /\ single[2].match_type = "soundex_exact"

\* C9: an input equal to the romanization of a stored entry gets that
\* entry first, with match type exact and a score equal to 100.
C9_ExactScores100 ==
    (qpc = "done" /\ \E k \in 1..Len(store) : store[k].romanized = user_input) =>
        /\ result # <<>>
        /\ result[1].romanized = user_input
        /\ result[1].match_type = "exact"
        /\ result[1].score = Pts(100)

\* C10: when the store holds an entry whose romanization equals the
\* normalized input, the result holds an exact match, and every compound
\* entry of the result scores strictly less than every exact entry and is
\* listed after it.
C10_CompoundBelowExact ==
    (qpc = "done" /\ HasExactEntry) =>
        /\ \E j \in 1..Len(result) : result[j].match_type = "exact"
        /\ \A i, j \in 1..Len(result) :
              (result[i].match_type = "compound" /\ result[j].match_type = "exact")
                  => (result[i].score < result[j].score /\ j < i)

\* "maha" is both a stored word and the compound of "ma" and "ha"
C10_Witness ==
    /\ qpc = "done"
    /\ Len(result) >= 2
    /\ result[1].match_type = "exact"
    /\ \E i \in 2..Len(result) :
          result[i].match_type = "compound" /\ result[i].thai = result[1].thai

\* the input is empty or holds nothing but whitespace
BlankInput == \A i \in 1..Len(user_input) : user_input[i] \in {" ", "\t", "\n", "\r"}

\* C11: for an input that is empty or whitespace only, the finished query
\* (it ends by returning, the model has no error exit for it) has the empty
\* list from rank, from the compound decomposer and from the top-level
\* match, and has made no store lookup.
C11_BlankInput ==
    (qpc = "done" /\ BlankInput) =>
        /\ single = <<>>
        /\ compound = <<>>
        /\ result = <<>>
        /\ lookups = 0

\* a tab and a space against a store of three words
C11_Witness ==
    /\ qpc = "done"
    /\ user_input = <<"\t", " ">>
    /\ Len(store) = MaxStore
    /\ result = <<>>
    /\ lookups = 0

NonIncreasing(seq) ==
    \A i \in 1..(Len(seq) - 1) : seq[i].score >= seq[i + 1].score

IsCompound(m) == m.match_type = "compound"

\* entry m is one of the entries of seq
Among(seq, m) == \E k \in 1..Len(seq) : seq[k] = m

\* C18: the result has at most top_n entries in non-increasing score
\* order; they are distinct entries of single and compound taken together,
\* as many as top_n allows, and no entry left out scores more than one
\* kept; on equal scores a single-word entry stands before a compound
\* entry, and is the one kept when only one of the two fits.
C18_TopOfMerge ==
    qpc = "done" =>
        /\ Len(result) = Min(top_n, Len(single) + Len(compound))
        /\ NonIncreasing(result)
        /\ \A i \in 1..Len(result) : Among(single \o compound, result[i])
        /\ \A i, j \in 1..Len(result) : i # j => result[i] # result[j]
        /\ \A k \in 1..Len(single \o compound) :
              ~Among(result, (single \o compound)[k]) =>
                  \A i \in 1..Len(result) :
                      /\ result[i].score >= (single \o compound)[k].score
                      /\ (IsCompound(result[i]) /\ ~IsCompound((single \o compound)[k]))
                             => result[i].score > (single \o compound)[k].score
        /\ \A i, j \in 1..Len(result) :
              (i < j /\ result[i].score = result[j].score)
                  => ~(IsCompound(result[i]) /\ ~IsCompound(result[j]))

\* "haha": the word "hahah" and the compound of "ha" and "ha" score the
\* same, and the word is listed first
C18_Witness ==
    /\ qpc = "done"
    /\ user_input = <<"h", "a", "h", "a">>
    /\ Len(result) = 2
    /\ result[1].score = result[2].score
    /\ result[1].match_type = "soundex_partial"
    /\ result[2].match_type = "compound"

\* the base score of entry m: its score less the boosts
BaseOf(m, input_norm) == m.score - RowScore(0, m, input_norm)

\* entry m has the match type and the base score of its case
ClassifiedAs(m, input_norm, input_sx) ==
    IF m.romanized = input_norm
    THEN /\ m.match_type = "exact"
         /\ BaseOf(m, input_norm) = Pts(100)
    ELSE IF m.soundex = input_sx
         THEN /\ m.match_type = "soundex_exact"
              /\ BaseOf(m, input_norm)
                   = Pts(Max(0, 90 - 10 * levenshtein_distance(input_norm, m.romanized)))
         ELSE /\ m.match_type = "soundex_partial"
              /\ BaseOf(m, input_norm)
                   = Pts(Max(0, 70 - 10 * levenshtein_distance(input_norm, m.romanized)))

\* C19: every entry rank returns is exact with base 100 when its
\* romanization is the normalized input; failing that, phonetic-exact with
\* base max(0, 90 - 10 d) when its code is the input's code; failing that,
\* prefix-only with base max(0, 70 - 10 d), d the edit distance between
\* the normalized input and the romanization.
C19_Classification ==
    qpc = "done" =>
        \A i \in 1..Len(single) :
            ClassifiedAs(single[i], Normalize(user_input),
                         thai_soundex(Normalize(user_input), SoundexLength))

\* "m" against the word of eleven m: same code, distance 10, so the base
\* is cut to 0 and the score is the prefix boost alone
C19_Witness ==
    /\ qpc = "done"
    /\ user_input = <<"m">>
    /\ Len(single) = 1
    /\ single[1].match_type = "soundex_exact"
    /\ levenshtein_distance(Normalize(user_input), single[1].romanized) = 10
    /\ single[1].score = Pts(5)

\* the rows of the store in the order the SELECT returns them
Returned(input_norm, input_sx) ==
    QueryRows(store, input_norm, input_sx, SxPrefix(input_sx))

\* the place of the row of entry m among rows
PlaceIn(rows, m) ==
    CHOOSE k \in 1..Len(rows) :
        rows[k].thai = m.thai /\ rows[k].romanized = m.romanized

ReturnedOrder(input_norm, input_sx) ==
    \A i, j \in 1..Len(single) :
        (i < j /\ single[i].score = single[j].score) =>
            PlaceIn(Returned(input_norm, input_sx), single[i])
                < PlaceIn(Returned(input_norm, input_sx), single[j])

\* C20: rank returns at most top_n entries, each with a score above 0, in
\* non-increasing score order, and entries of equal score stand in the
\* order in which the store returned their rows.
C20_RankOrder ==
    qpc = "done" =>
        /\ Len(single) <= top_n
        /\ \A i \in 1..Len(single) : single[i].score > 0
        /\ NonIncreasing(single)
        /\ ReturnedOrder(Normalize(user_input),
                         thai_soundex(Normalize(user_input), SoundexLength))

\* "x" against the two words romanized "na": equal scores, and the one
\* inserted later comes first because the store returns it first (higher
\* frequency)
C20_Witness ==
    /\ qpc = "done"
    /\ user_input = <<"x">>
    /\ Len(store) = 2
    /\ store[1].thai = <<"TN", "Ta">>
    /\ Len(single) = 2
    /\ single[1].score = single[2].score
    /\ single[1].thai = <<"Tn", "Ta">>
    /\ single[2].thai = <<"TN", "Ta">>

\* among the scored candidates all, no prefix-only one scores above a
\* phonetic-exact one at the same edit distance from the input
PrefixNotAboveAmong(all, input_norm) ==
    \A i, j \in 1..Len(all) :
        ( /\ all[i].match_type = "soundex_exact"
          /\ all[j].match_type = "soundex_partial"
          /\ levenshtein_distance(input_norm, all[i].romanized)
               = levenshtein_distance(input_norm, all[j].romanized) )
        => all[j].score <= all[i].score

\* C21: within one query, a candidate matched only by the prefix of its
\* code never has a higher final score than a candidate whose code equals
\* the input's code and whose edit distance to the input is the same.
C21_PrefixNotAbovePhoneticExact ==
    qpc = "done" => PrefixNotAboveAmong(AllScored, Normalize(user_input))

\* the first three characters of the code, the whole code when shorter
FirstThree(input_sx) == SubSeq(input_sx, 1, Min(3, Len(input_sx)))

\* row is a candidate of the query
IsCandidate(row, input_norm, input_sx) ==
    \/ row.romanized = input_norm
    \/ row.soundex = input_sx
    \/ StartsWith(row.soundex, FirstThree(input_sx))

\* exact 0, code-equal 1, prefix-only 2
TierOf(row, input_norm, input_sx) ==
    CASE row.romanized = input_norm -> 0
      [] row.romanized # input_norm /\ row.soundex = input_sx -> 1
      [] OTHER -> 2

\* row r comes strictly ahead of row q: a higher tier, or the same tier
\* and a higher frequency
Ahead(r, q, input_norm, input_sx) ==
    \/ TierOf(r, input_norm, input_sx) < TierOf(q, input_norm, input_sx)
    \/ /\ TierOf(r, input_norm, input_sx) = TierOf(q, input_norm, input_sx)
       /\ r.frequency > q.frequency

\* rows are the candidates of the query over st: candidates only, none
\* twice, as many as there are up to the limit, in tier and frequency
\* order, and no row that was cut off comes ahead of a row that was kept
CandidateRows(rows, st, input_norm, input_sx) ==
    /\ \A i \in 1..Len(rows) :
          /\ \E k \in 1..Len(st) : st[k] = rows[i]
          /\ IsCandidate(rows[i], input_norm, input_sx)
    /\ \A i, j \in 1..Len(rows) : i < j => rows[i] # rows[j]
    /\ Len(rows) = Min(QueryLimit,
                       Cardinality({k \in 1..Len(st) :
                                      IsCandidate(st[k], input_norm, input_sx)}))
    /\ \A i, j \in 1..Len(rows) :
          i < j => ~Ahead(rows[j], rows[i], input_norm, input_sx)
    /\ \A k \in 1..Len(st) :
          ( /\ IsCandidate(st[k], input_norm, input_sx)
            /\ \A i \in 1..Len(rows) : rows[i] # st[k] )
          => \A i \in 1..Len(rows) :
                ~Ahead(st[k], rows[i], input_norm, input_sx)

\* entry m is the scored form of one of rows
ScoredFrom(rows, m) ==
    \E i \in 1..Len(rows) :
        /\ rows[i].thai = m.thai
        /\ rows[i].romanized = m.romanized
        /\ rows[i].soundex = m.soundex
        /\ rows[i].frequency = m.frequency

\* every entry of ms is scored from rows, and so no row of st left out of
\* rows comes ahead of the row of an entry
ScoredWithin(ms, rows, st, input_norm, input_sx) ==
    /\ \A i \in 1..Len(ms) : ScoredFrom(rows, ms[i])
    /\ \A i \in 1..Len(ms) : \A k \in 1..Len(st) :
          ( /\ IsCandidate(st[k], input_norm, input_sx)
            /\ ~ScoredFrom(rows, st[k]) )
          => TierOf(st[k], input_norm, input_sx)
               >= TierOf(ms[i], input_norm, input_sx)

\* rows are the candidates of the query and the entries of single are
\* scored from them
CandidateSet(rows, input_norm, input_sx) ==
    /\ CandidateRows(rows, store, input_norm, input_sx)
    /\ ScoredWithin(single, rows, store, input_norm, input_sx)

CandidateSetFor(input_norm, input_sx) ==
    CandidateSet(Returned(input_norm, input_sx), input_norm, input_sx)

\* C22: in a query the scored candidates are the rows whose romanization
\* is the input, whose code is the input's code or whose code starts with
\* the first three characters of the input's code (the whole code when
\* shorter), each once, cut to at most 100 after ordering exact first,
\* then code-equal, then prefix-only, each by descending frequency; no
\* entry of a lower tier is scored while a row of a higher tier is cut off.
C22_CandidateSet ==
    (qpc = "done" /\ ~BlankInput) =>
        CandidateSetFor(Normalize(user_input),
                        thai_soundex(Normalize(user_input), SoundexLength))

\* "a" against the store of more than 100 words of code A: the word "a",
\* inserted last, is returned first, and rows are cut off
C22_Witness ==
    /\ qpc = "done"
    /\ user_input = <<"a">>
    /\ Len(store) > QueryLimit
    /\ Cardinality({k \in 1..Len(store) :
                      IsCandidate(store[k], <<"a">>, <<"A">>)}) > QueryLimit
    /\ store[Len(store)].romanized = <<"a">>
    /\ Len(single) = 5
    /\ single[1].romanized = <<"a">>
    /\ single[2].match_type = "soundex_exact"

\* entry e is the compound of lms[1] and rms[1], the best single-word
\* matches of the halves left and right
FormedOf(e, left, right, lms, rms) ==
    /\ lms # <<>> /\ rms # <<>>
    /\ lms[1].score >= Pts(50) /\ rms[1].score >= Pts(50)
    /\ lms[1].match_type # "compound" /\ rms[1].match_type # "compound"
    /\ e.thai = lms[1].thai \o rms[1].thai
    /\ e.romanized = left \o <<"+">> \o right
    /\ e.match_type = "compound"
    /\ 2 * (e.score + Pts(30)) = lms[1].score + rms[1].score

\* entry e is formed at split point i of input_norm
FormedAt(e, input_norm, i, st) ==
    FormedOf(e, SubSeq(input_norm, 1, i), SubSeq(input_norm, i + 1, Len(input_norm)),
             find_matches_db(SubSeq(input_norm, 1, i), st, 1),
             find_matches_db(SubSeq(input_norm, i + 1, Len(input_norm)), st, 1))

\* the text of entry e is the text of two stored words, one after the other
TwoWords(e, st) ==
    \E k, l \in 1..Len(st) : e.thai = st[k].thai \o st[l].thai

\* C23: every entry the decomposer returns comes from one split point i,
\* 2 <= i <= length - 2, of the normalized input (none when the length is
\* below 4) at which the best single-word matches of input[0:i] and of
\* input[i:] both score at least 50; its text is the two texts
\* concatenated, its romanization left+'+'+right, its match type compound,
\* its score (leftScore + rightScore)/2 - 30, and neither half is a compound.
C23_CompoundFormation ==
    qpc = "done" =>
        /\ Len(Normalize(user_input)) < 4 => compound = <<>>
        /\ \A n \in 1..Len(compound) :
              /\ \E i \in 2..(Len(Normalize(user_input)) - 2) :
                    FormedAt(compound[n], Normalize(user_input), i, store)
              /\ TwoWords(compound[n], store)

\* "hamm" against "ha" and "maha": the halves "ha" and "mm" both have a
\* best match, but the one of "mm" scores 40, so no compound is formed
C23_Witness ==
    /\ qpc = "done"
    /\ user_input = <<"h", "a", "m", "m">>
    /\ Len(store) = 2
    /\ find_matches_db(<<"h", "a">>, store, 1) # <<>>
    /\ find_matches_db(<<"m", "m">>, store, 1) # <<>>
    /\ find_matches_db(<<"m", "m">>, store, 1)[1].score = Pts(40)
    /\ compound = <<>>

\* the halves left and right, best matches lms and rms, give a compound of
\* the text thai
GivesText(thai, lms, rms) ==
    /\ lms # <<>> /\ rms # <<>>
    /\ lms[1].score >= Pts(50) /\ rms[1].score >= Pts(50)
    /\ thai = lms[1].thai \o rms[1].thai

\* split point i of input_norm gives a compound of the text thai
SplitGives(thai, input_norm, i, st) ==
    GivesText(thai,
              find_matches_db(SubSeq(input_norm, 1, i), st, 1),
              find_matches_db(SubSeq(input_norm, i + 1, Len(input_norm)), st, 1))

\* if split point i, with best matches lms and rms of its halves, is the
\* smallest one that gives the text of entry e, then e is formed at i
FirstSplitForms(e, input_norm, i, st, lms, rms) ==
    ( /\ GivesText(e.thai, lms, rms)
      /\ \A j \in 2..(i - 1) : ~SplitGives(e.thai, input_norm, j, st) )
    => FormedOf(e, SubSeq(input_norm, 1, i),
                SubSeq(input_norm, i + 1, Len(input_norm)), lms, rms)

\* entry e is the one formed at the smallest split point that gives its text
FromFirstSplit(e, input_norm, st) ==
    \A i \in 2..(Len(input_norm) - 2) :
        FirstSplitForms(e, input_norm, i, st,
            find_matches_db(SubSeq(input_norm, 1, i), st, 1),
            find_matches_db(SubSeq(input_norm, i + 1, Len(input_norm)), st, 1))

\* C24: no two entries the decomposer returns have the same combined
\* text, and when several split points give the same combined text the
\* entry kept is the one of the smallest split point, with the score of
\* that split, even if a later split scores higher.
C24_CompoundDedup ==
    qpc = "done" =>
        /\ \A m, n \in 1..Len(compound) :
              m # n => compound[m].thai # compound[n].thai
        /\ \A n \in 1..Len(compound) :
              FromFirstSplit(compound[n], Normalize(user_input), store)

\* "mahha" against "mah" and "ha": the splits ma+hha and mah+ha give the
\* same text; the entry kept is ma+hha, although mah+ha scores higher
C24_Witness ==
    /\ qpc = "done"
    /\ user_input = <<"m", "a", "h", "h", "a">>
    /\ Len(store) = 2
    /\ Len(compound) = 1
    /\ compound[1].romanized = <<"m", "a", "+", "h", "h", "a">>
    /\ SplitGives(compound[1].thai, Normalize(user_input), 3, store)
    /\ CompoundScore(find_matches_db(<<"m", "a", "h">>, store, 1)[1].score,
                     find_matches_db(<<"h", "a">>, store, 1)[1].score)
         > compound[1].score

(***************************************************************************)
(* Properties of the phonetic encoder (specification SpecEncoder).         *)
(***************************************************************************)
ConsonantClasses ==
    { {"k", "c", "g"}, {"p", "b"}, {"t", "d"}, {"n", "m"}, {"l", "r"},
      {"s", "z", "j"}, {"w", "v"} }

\* the consonants of the class of x; empty when x is in no class
ClassOf(x) == UNION {cls \in ConsonantClasses : x \in cls}

FirstOf(cde) == IF cde = <<>> THEN "" ELSE cde[1]

\* the word is x + t with t beginning with h, in either case
TailBeginsWithH == Len(word) >= 2 /\ word[2] \in {"h", "H"}

\* C12 as stated: when the encoded word is x + t with x a consonant of a
\* class, every y of that class gives y + t a code with the same first
\* character.
C12_Original ==
    (epc = "done" /\ word # <<>> /\ limit >= 1) =>
        \A y \in ClassOf(word[1]) :
            FirstOf(thai_soundex(<<y>> \o Tail(word), limit)) = FirstOf(code)

\* C12 amended: the same, with c set aside when t begins with h: the
\* cluster ch is encoded as 6, the class of s, z and j, while k and g
\* before h keep 1.
C12_SameClassSameLead ==
    (epc = "done" /\ word # <<>> /\ limit >= 1) =>
        \A y \in ClassOf(word[1]) :
            (TailBeginsWithH => (word[1] # "c" /\ y # "c")) =>
                FirstOf(thai_soundex(<<y>> \o Tail(word), limit)) = FirstOf(code)

\* "nga": the cluster ng gives 4, and so does the m of "mga"
C12_Witness ==
    /\ epc = "done"
    /\ word = <<"n", "g", "a">>
    /\ limit = SoundexLength
    /\ code = <<"4", "A">>
    /\ thai_soundex(<<"m", "g", "a">>, limit) = <<"4", "1", "A">>

\* s lower-cased with all spaces removed
WithoutSpaces(s) == SelectSeq(Lower(s), LAMBDA c : c # " ")

\* C13: the code of a word is the code of the word lower-cased with all
\* its spaces (leading, trailing and internal) removed, and a word of
\* nothing but whitespace has the empty code.
C13_SpacesRemoved ==
    epc = "done" =>
        /\ code = thai_soundex(WithoutSpaces(word), limit)
        /\ (\A i \in 1..Len(word) : word[i] \in {" ", "\t", "\n", "\r"})
               => code = <<>>

\* the Latin letters char_map has an entry for, in either case
MappedLetters ==
    {"k", "c", "g", "p", "b", "t", "d", "n", "m", "l", "r", "s", "z", "j",
     "w", "v", "y", "h", "a", "e", "i", "o", "u",
     "K", "C", "G", "P", "B", "T", "D", "N", "M", "L", "R", "S", "Z", "J",
     "W", "V", "Y", "H", "A", "E", "I", "O", "U"}

\* s with every character outside the mapped letters replaced by "-"
Neutralized(s) ==
    [i \in 1..Len(s) |-> IF s[i] \in MappedLetters THEN s[i] ELSE "-"]

MappedCount(s) == Cardinality({i \in 1..Len(s) : s[i] \in MappedLetters})

\* C14: the characters outside the mapped letters contribute nothing (the
\* code does not change when each of them is replaced by a hyphen), a word
\* made only of such characters has the empty code, and the code has at
\* most one character for every mapped letter of the word.
C14_OnlyMappedLetters ==
    epc = "done" =>
        /\ code = thai_soundex(Neutralized(word), limit)
        /\ MappedCount(word) = 0 => code = <<>>
        /\ Len(code) <= MappedCount(word)

\* C15: the code has at most limit characters and is the first limit
\* characters of the code computed without a cut (a code is never longer
\* than the word).
C15_Truncation ==
    epc = "done" =>
        /\ Len(code) <= limit
        /\ code = SubSeq(thai_soundex(word, Len(word)), 1,
                         Min(limit, Len(thai_soundex(word, Len(word)))))

\* "kan" cut to two characters
C15_Witness ==
    /\ epc = "done"
    /\ word = <<"k", "a", "n">>
    /\ limit = 2
    /\ code = <<"1", "A">>

DigitsAndVowels ==
    {"1", "2", "3", "4", "5", "6", "7", "8", "9", "A", "E", "I", "O", "U"}

\* C25: for every word and every maximum length the code has no two equal
\* adjacent characters and is made only of the digits 1-9 and the letters
\* A, E, I, O, U.
C25_CodeShape ==
    epc = "done" =>
        /\ \A i \in 1..Len(code) : code[i] \in DigitsAndVowels
        /\ \A i \in 1..(Len(code) - 1) : code[i] # code[i + 1]

\* "w7k": w maps to 7, the typed 7 is kept as it is, and the two collapse
C25_Witness ==
    /\ epc = "done"
    /\ word = <<"w", "7", "k">>
    /\ limit = SoundexLength
    /\ code = <<"7", "1">>

(***************************************************************************)
(* Properties of the scorers (specification SpecScorer).                   *)
(***************************************************************************)
RECURSIVE EditDistance(_, _)
\* the reference definition: the least number of insertions, deletions and
\* substitutions turning a into b
EditDistance(a, b) ==
    IF a = <<>> THEN Len(b)
    ELSE IF b = <<>> THEN Len(a)
    ELSE Min3(EditDistance(Tail(a), b) + 1,
              EditDistance(a, Tail(b)) + 1,
              EditDistance(Tail(a), Tail(b))
                  + (IF Head(a) = Head(b) THEN 0 ELSE 1))

\* C16: the distance computed for (arg1, arg2) is the reference edit
\* distance; it is the distance of (arg2, arg1), it is 0 exactly when the
\* strings are equal, it is the length of the other string when one is
\* empty, and with any third string it obeys the triangle inequality.
C16_EditDistance ==
    spc = "distance" =>
        /\ distance = EditDistance(arg1, arg2)
        /\ distance = levenshtein_distance(arg2, arg1)
        /\ (distance = 0) <=> (arg1 = arg2)
        /\ arg1 = <<>> => distance = Len(arg2)
        /\ arg2 = <<>> => distance = Len(arg1)
        /\ \A other \in Texts :
              levenshtein_distance(arg1, other)
                  <= distance + levenshtein_distance(arg2, other)

\* "aba" to "ba" is one deletion
C16_Witness ==
    /\ spc = "distance"
    /\ arg1 = <<"a", "b", "a">>
    /\ arg2 = <<"b", "a">>
    /\ distance = 1

\* the contiguous substrings of length n of a
SubstringsOf(a, n) ==
    {g \in [1..n -> ScorerChars] :
        \E i \in 0..(Len(a) - n) : \A j \in 1..n : a[i + j] = g[j]}

\* the ratio sim = <<numerator, denominator>> is |A \cap B| / |A \cup B|,
\* and 0 when both sets are empty
IsJaccardOf(sim, A, B) ==
    /\ sim[2] > 0
    /\ sim[1] * Cardinality(A \cup B) = Cardinality(A \cap B) * sim[2]
    /\ (A \cup B = {}) => sim[1] = 0

SameRatio(p, q) == p[1] * q[2] = q[1] * p[2]

\* C17: for n >= 1 the similarity computed for (arg1, arg2, argn) is the
\* Jaccard ratio of the two sets of substrings of length argn; it is 0
\* when a string is shorter than argn, it is the similarity of
\* (arg2, arg1, argn), and it lies in [0, 1].
C17_Jaccard ==
    (spc = "similarity" /\ argn >= 1) =>
        /\ IsJaccardOf(similarity, SubstringsOf(arg1, argn), SubstringsOf(arg2, argn))
        /\ (Len(arg1) < argn \/ Len(arg2) < argn) => similarity[1] = 0
        /\ SameRatio(similarity, ngram_similarity(arg2, arg1, argn))
        /\ 0 <= similarity[1] /\ similarity[1] <= similarity[2]

\* the bigrams of "aab" and "abb" share one of three
C17_Witness ==
    /\ spc = "similarity"
    /\ arg1 = <<"a", "a", "b">>
    /\ arg2 = <<"a", "b", "b">>
    /\ argn = 2
    /\ similarity = <<1, 3>>

====
